---- MODULE Spec2Model ----
(***************************************************************************)
(* pyRRIM: Red Relief Image Map from a DEM (pyRRIM/pyRRIM.py).             *)
(*                                                                         *)
(* Three specifications share the module:                                  *)
(*   Spec      the rrim() orchestrator, run after run, over a file system  *)
(*   SpecQuant the two quantisations of genRRIMImage on one pixel value    *)
(*   SpecLUT   colorScheme's lookup table                                  *)
(*                                                                         *)
(* Raster values are fixed-point integers, Unit steps to one degree.       *)
(* A raster is a record [pix, gt, proj]: a row of pixels, the geotransform *)
(* and the projection text (richdem's rdarray attributes).                 *)
(***************************************************************************)
EXTENDS Integers, Sequences, FiniteSets, TLC

(* ------------------------------ bounds ------------------------------- *)
\* Half the number of fixed-point steps to one degree.
HalfUnit == 2
\* LUT axis sizes 2..MaxRange are explored beside the program's defaults.
MaxRange == 7
\* Pixel values of SpecQuant span -MaxValue..MaxValue degrees.
MaxValue == 400
\* A large LUT axis size at which linspace's float rounding shows.
ProbeRange == 106
\* Largest LUT (cells) SpecLUT builds.
MaxCells == 320
\* An axis size beyond the 8-bit range.
WideRange == 300

Unit == 2 * HalfUnit

(* ------------------------- program constants ------------------------- *)
\* Python's None.
None == [none |-> TRUE]
DefaultSaturation == 90
DefaultBrithness == 150
ExampleSaturation == 80
ExampleBrithness == 40
DefaultNoData == -9999
\* np.uint8: 8-bit unsigned.
U8Modulus == 256
\* np.linspace(0, 255, n): the stop value.
LinStop == 255
\* IEEE-754 double: 53 significant bits.
DoubleMantissa == 52

Abs(x) == IF x < 0 THEN -x ELSE x
Min2(a, b) == IF a < b THEN a ELSE b
Max2(a, b) == IF a > b THEN a ELSE b

RECURSIVE Pow2(_)
Pow2(e) == IF e <= 0 THEN 1 ELSE 2 * Pow2(e - 1)

\* 2^e mod m, by repeated doubling.
RECURSIVE Pow2Mod(_, _)
Pow2Mod(e, m) == IF e <= 0 THEN 1 % m ELSE (2 * Pow2Mod(e - 1, m)) % m

(* ---------------------- np.uint8(<float array>) ---------------------- *)
\* A float-to-integer conversion truncates toward zero.
TruncDiv(n, d) == IF n >= 0 THEN n \div d ELSE -((-n) \div d)

\* The build's float -> uint8 conversion. The truncated value is stored when
\* it fits 0..255. Outside that range the C conversion is undefined: an x86
\* build keeps the low byte of the integer (wrap), an ARM build saturates.
CastModes == {"wrap", "saturate"}

CastU8(n, d, mode) ==
    LET t == TruncDiv(n, d)
    IN  IF t \in 0..(U8Modulus - 1) THEN t
        ELSE IF mode = "wrap" THEN t % U8Modulus
        ELSE IF t < 0 THEN 0 ELSE U8Modulus - 1

(* ------------------- genRRIMImage: the two indices ------------------- *)
\* inc = np.uint8(abs(slopedata)); inc[inc > s-1] = s-1
SlopeIndex(v, s, mode) ==
    LET inc == CastU8(Abs(v), Unit, mode)
    IN  IF inc > s - 1 THEN s - 1 ELSE inc

\* openness_val = np.uint8((openness + b) / 2);
\* openness_val[openness_val < 0] = 0; openness_val[openness_val >= b] = b-1
OpennessIndexOldFormula(o, b, mode) ==
    LET val == CastU8(2 * o + b * Unit, 2 * Unit, mode)
        v1  == IF val < 0 THEN 0 ELSE val
    IN  IF v1 >= b THEN b - 1 ELSE v1

OpennessIndex(o, b, mode) ==
    LET val == CastU8(o + b * Unit, 2 * Unit, mode)
        v1  == IF val < 0 THEN 0 ELSE val
    IN  IF v1 >= b THEN b - 1 ELSE v1

(* ----------------------------- colorScheme --------------------------- *)
\* The largest a with 2^a <= num/den (num, den > 0).
RECURSIVE FloorLog2Up(_, _, _)
FloorLog2Up(num, den, a) ==
    IF num >= den * Pow2(a + 1) THEN FloorLog2Up(num, den, a + 1) ELSE a
RECURSIVE FloorLog2Down(_, _, _)
FloorLog2Down(num, den, a) ==
    IF num * Pow2(a) < den THEN FloorLog2Down(num, den, a + 1) ELSE -a
FloorLog2(num, den) ==
    IF num >= den THEN FloorLog2Up(num, den, 0) ELSE FloorLog2Down(num, den, 1)

\* The c with 2^c < k <= 2^(c+1) (k >= 1).
RECURSIVE BinadeBelow(_, _)
BinadeBelow(k, c) == IF k > Pow2(c + 1) THEN BinadeBelow(k, c + 1) ELSE c

\* int(np.linspace(0, 255, n)[i]): linspace computes i * step in doubles with
\* step = 255/(n-1) rounded to nearest, and stores 255 itself in the last
\* place. The product's integer part is floor(255 i/(n-1)) unless that
\* quotient is an integer k and the product rounds below k; then it is k-1.
\* r is the remainder the division leaves at the step's last bit; d is n-1.
LinspaceRound(i, n) ==
    IF n = 1 THEN 0 ELSE (2 * LinStop * i + (n - 1)) \div (2 * (n - 1))

LinspaceTrunc(i, n) ==
    IF n = 1 THEN 0
    ELSE IF i = n - 1 THEN LinStop
    ELSE
      LET d == n - 1
          k == (LinStop * i) \div d
      IN  IF (LinStop * i) % d # 0 \/ k = 0 THEN k
          ELSE
            LET a    == FloorLog2(LinStop, d)
                q    == DoubleMantissa - a
                r    == (LinStop * Pow2Mod(q, d)) % d
                r2   == (LinStop * Pow2Mod(q, 2 * d)) % (2 * d)
                down == 2 * r < d \/ (2 * r = d /\ r2 \div d = 0)
                c    == BinadeBelow(k, -1)
                e    == 1 + a - c
                lhs  == IF e >= 0 THEN i * r * Pow2(e) ELSE i * r
                rhs  == IF e >= 0 THEN d ELSE d * Pow2(-e)
            IN  IF r # 0 /\ down /\ lhs > rhs THEN k - 1 ELSE k

\* img_hsv after the two loops: hue 0, saturation by row, value by column.
\* np.uint8 of a linspace value (0..255) is its integer part.
ImgHSV(size) ==
    [c \in (0..(size[1] - 1)) \X (0..(size[2] - 1)) |->
        <<0, LinspaceTrunc(c[1], size[1]), LinspaceTrunc(c[2], size[2])>>]

\* cv2.cvtColor(..., COLOR_HSV2BGR) on one 8-bit pixel of hue 0:
\* R = V, G = B = V (255 - S)/255 rounded.
HSV2BGR(hsv) ==
    LET s == hsv[2]
        v == hsv[3]
        p == (2 * v * (LinStop - s) + LinStop) \div (2 * LinStop)
    IN  <<p, p, v>>

colorScheme(size) ==
    LET hsv == ImgHSV(size)
    IN  [c \in DOMAIN hsv |-> HSV2BGR(hsv[c])]

(* ------------------------- files and rasters ------------------------- *)
\* Rasters are rows of NPix pixels.
NPix == 3
\* Largest openness search radius (svf_r_max) a call passes.
MaxRadius == 2
\* rrim() calls in one behaviour.
MaxRuns == 2
MaxTokens == 3

\* A path is a sequence of characters; demname[:-4] drops the last four.
DemName == <<"test", ".", "t", "i", "f">>
Stem(path) == SubSeq(path, 1, Len(path) - 4)
SlopeFile(demname) == Stem(demname) \o <<"_slope.tif">>
PosFile(demname) == Stem(demname) \o <<"_pos_opns.tif">>
NegFile(demname) == Stem(demname) \o <<"_neg_opns.tif">>
DiffFile(demname) == Stem(demname) \o <<"_diff_opns.tif">>
RrimFile(demname) == Stem(demname) \o <<"_rrim.tif">>
Paths ==
    {DemName, SlopeFile(DemName), PosFile(DemName), NegFile(DemName),
     DiffFile(DemName), RrimFile(DemName)}

\* Projection texts as token sequences; a projected CRS names its geographic
\* base too, so it holds both "PROJECTION" and "degree".
ProjGeographic == <<"GEOGCS", "degree">>
ProjProjected == <<"PROJCS", "GEOGCS", "degree", "PROJECTION", "metre">>
ProjNone == << >>
Contains(text, word) == \E k \in 1..Len(text) : text[k] = word

\* geotransform[1] (pixel width) and geotransform[3] (origin Y, the latitude).
\* A file cv2 wrote and nothing stamped reads back with GDAL's default.
GTDefault == [res |-> 1, lat |-> 0]
GTMetric == [res |-> 2, lat |-> 0]
GTDegree == [res |-> 1, lat |-> 60]

\* The row <<1, 0, ..., 0, 1>>: one depression between two rims.
Basin == [k \in 1..NPix |-> IF k = 1 \/ k = NPix THEN 1 ELSE 0]
Ridge == [k \in 1..NPix |-> IF k = 1 \/ k = NPix THEN 0 ELSE 1]

File(pix, gt, proj, readable) ==
    [pix |-> pix, gt |-> gt, proj |-> proj, r |-> readable]

\* What the operator may put at the DEM path between runs.
DemFiles ==
    {File(Basin, GTMetric, ProjProjected, TRUE),
     File(Ridge, GTDegree, ProjGeographic, TRUE),
     File(Basin, GTMetric, ProjProjected, FALSE)}
\* Rasters of another origin found at the _slope / _diff_opns paths.
ForeignSlope == File([k \in 1..NPix |-> 20 * Unit], GTDegree, ProjGeographic, TRUE)
ForeignDiff == File([k \in 1..NPix |-> (0 - 10) * Unit], GTDegree, ProjGeographic, TRUE)

(* ------------------------------ checkfiles --------------------------- *)
\* os.path.isfile(f) and os.access(f, os.R_OK)
checkfilesExistsOnly(files, f) == files[f] # None

checkfiles(files, f) == files[f] # None /\ files[f].r

\* rd.LoadGDAL(path, no_data): pixels, geotransform and projection of the file.
LoadGDAL(files, f) == [pix |-> files[f].pix, gt |-> files[f].gt, proj |-> files[f].proj]

(* ------------------------------- factorz ----------------------------- *)
\* cos(lat degrees) as a fraction, for the latitudes the DEMs carry.
CosFrac(lat) == IF lat = 60 THEN [num |-> 1, den |-> 2] ELSE [num |-> 1, den |-> 1]
MetresPerDegree == 111320

\* zfactor as a fraction num/den.
factorzDegreeOnly(dem) ==
    IF Contains(dem.proj, "degree")
    THEN LET c == CosFrac(Abs(dem.gt.lat))
         IN  [num |-> c.den, den |-> MetresPerDegree * c.num]
    ELSE [num |-> 1, den |-> 1]

factorz(dem) ==
    IF Contains(dem.proj, "degree") /\ ~Contains(dem.proj, "PROJECTION")
    THEN LET c == CosFrac(Abs(dem.gt.lat))
         IN  [num |-> c.den, den |-> MetresPerDegree * c.num]
    ELSE [num |-> 1, den |-> 1]

(* -------------------- the external raster libraries ------------------ *)
\* Stand-ins with the interface the code consumes: deterministic, of the
\* input's shape, the result carrying the input's geotransform and projection.
RowMax(pix, S) == IF S = {} THEN 0 ELSE CHOOSE m \in {pix[k] : k \in S} : \A k \in S : pix[k] <= m

\* rd.FillDepressions(DEM, epsilon = False, in_place = False)
FillDepressions(dem) ==
    LET n == Len(dem.pix)
        level(k) == Min2(RowMax(dem.pix, 1..(k - 1)), RowMax(dem.pix, (k + 1)..n))
    IN  [dem EXCEPT !.pix = [k \in 1..n |->
            IF k = 1 \/ k = n THEN dem.pix[k] ELSE Max2(dem.pix[k], level(k))]]

\* rvt.vis.slope_aspect(dem, resolution_x, resolution_y, "degree", ve_factor)["slope"]
slope_aspect(dem, res, ve) ==
    LET n == Len(dem.pix)
        at(k) == dem.pix[Max2(1, Min2(n, k))]
        deg(k) == (45 * Unit * Abs(at(k + 1) - at(k - 1)) * ve.num) \div (ve.den * res)
    IN  [dem EXCEPT !.pix = [k \in 1..n |-> Min2(90 * Unit, deg(k))]]

\* rvt.vis.sky_view_factor(dem, resolution, compute_opns = True, ...)["opns"]
\* on a row of elevations (pix), searching svf_r_max pixels each way.
sky_view_factor(pix, res, svf) ==
    LET n == Len(pix)
        near(k) == {j \in 1..n : j # k /\ Abs(j - k) <= svf.r_max}
        horizon(k) == IF near(k) = {} THEN 0
                      ELSE RowMax([j \in 1..n |-> pix[j] - pix[k]], near(k))
    IN  [k \in 1..n |-> (90 - 30 * horizon(k)) * Unit]

(* -------------------------------- openness --------------------------- *)
\* The three rasters openness() computes (lines 272-303).
opennessArrays(dem, svf) ==
    LET n   == Len(dem.pix)
        res == Abs(dem.gt.res)
        pos == sky_view_factor(dem.pix, res, svf)
        neg == sky_view_factor([k \in 1..n |-> dem.pix[k] * (0 - 1)], res, svf)
    IN  [pos  |-> [dem EXCEPT !.pix = pos],
         neg  |-> [dem EXCEPT !.pix = neg],
         diff |-> [dem EXCEPT !.pix = [k \in 1..n |-> (pos[k] - neg[k]) \div 2]]]

\* What openness() hands back: opennessMat is returned inside "if isave:".
opennessReturn(arrays, isave) == IF isave THEN arrays.diff ELSE None

(* ------------------------------ genRRIMImage ------------------------- *)
\* RRIM_map[i, j] without building the whole table.
LutCell(size, i, j) ==
    HSV2BGR(<<0, LinspaceTrunc(i, size[1]), LinspaceTrunc(j, size[2])>>)

\* result = RRIM_map[inc, openness_val], pixel by pixel.
rrimResult(slopedata, opns, size, mode) ==
    [k \in 1..Len(slopedata.pix) |->
        LutCell(size, SlopeIndex(slopedata.pix[k], size[1], mode),
                      OpennessIndex(opns.pix[k], size[2], mode))]

(* ------------------------------- the state --------------------------- *)
VARIABLES
    castMode,     \* the build's float -> uint8 conversion
    fs,           \* the file system: path -> file or None
    flog,         \* per path, the steps taken on the file since it was last written
    runs,         \* rrim() calls started
    pc,           \* position in rrim()
    args,         \* the call's arguments
    DEM, slopeMat, opennessMat,      \* rrim()'s locals
    arrays,       \* openness()'s locals: pos, neg, diff
    saves,        \* saveImage calls waiting at the current position
    out,          \* saveImage's open GDAL dataset
    ret,          \* where rrim() resumes after the saves
    err,          \* the exception that ended the call
    trace,        \* the phases the call has started, in order
    written,      \* the paths the call has written
    saved,        \* the DEM file and parameters the cached rasters come from
    q,            \* SpecQuant: a quantisation and its result
    lut,          \* SpecLUT: colorScheme's size, img_hsv and result
    zf            \* SpecZ: a raster's georeferencing and its z factor

vars == <<castMode, fs, flog, runs, pc, args, DEM, slopeMat, opennessMat, arrays,
          saves, out, ret, err, trace, written, saved, q, lut, zf>>
locals == <<DEM, slopeMat, opennessMat, arrays>>
disk == <<fs, flog>>
saving == <<saves, out, ret>>
other == <<castMode, q, lut, zf>>

SvfParams == {[n_dir |-> 8, r_max |-> r, noise |-> 0] : r \in 1..MaxRadius}
ColorChoices ==
    {<<DefaultSaturation, DefaultBrithness>>, <<ExampleSaturation, ExampleBrithness>>}
Args ==
    [demname : {DemName}, nodatavalue : {DefaultNoData}, demfill : BOOLEAN,
     svf : SvfParams, color : ColorChoices, isave : BOOLEAN, ikeep : BOOLEAN]

\* The parameters the slope and openness rasters depend on.
Terrain(a) == [demfill |-> a.demfill, svf |-> a.svf, nodatavalue |-> a.nodatavalue]

NoFiles == [f \in Paths |-> None]

InitPipeline ==
    /\ fs = NoFiles
    /\ flog = [f \in Paths |-> << >>]
    /\ runs = 0
    /\ pc = "idle"
    /\ args = None
    /\ DEM = None /\ slopeMat = None /\ opennessMat = None /\ arrays = None
    /\ saves = << >> /\ out = None /\ ret = "idle"
    /\ err = None
    /\ trace = << >>
    /\ written = {}
    /\ saved = None

Init ==
    /\ castMode \in CastModes
    /\ InitPipeline
    /\ q = None
    /\ lut = None
    /\ zf = None

(* ----------------------- the operator, between runs ------------------ *)
\* Put, replace or remove the DEM.
EnvSetDEM ==
    /\ pc = "idle"
    /\ \E d \in DemFiles \cup {None} :
         /\ fs[DemName] # d
         /\ fs' = [fs EXCEPT ![DemName] = d]
    /\ flog' = [flog EXCEPT ![DemName] = <<"external">>]
    /\ UNCHANGED <<runs, pc, args, locals, saving, err, trace, written, saved, other>>

\* Replace or remove a cached raster.
EnvSetCache ==
    /\ pc = "idle"
    /\ \E c \in {<<SlopeFile(DemName), ForeignSlope>>, <<DiffFile(DemName), ForeignDiff>>,
                 <<SlopeFile(DemName), None>>, <<DiffFile(DemName), None>>} :
         /\ fs[c[1]] # c[2]
         /\ fs' = [fs EXCEPT ![c[1]] = c[2]]
         /\ flog' = [flog EXCEPT ![c[1]] = <<"external">>]
    /\ saved' = None
    /\ UNCHANGED <<runs, pc, args, locals, saving, err, trace, written, other>>

(* ---------------------------------- rrim ------------------------------ *)
\* Lines 353-363: the call; rrimFile and color_size are functions of args.
Call ==
    /\ pc = "idle"
    /\ runs < MaxRuns
    /\ runs' = runs + 1
    /\ \E a \in Args : args' = a
    /\ pc' = "check"
    /\ UNCHANGED <<disk, locals, saving, err, trace, written, saved, other>>

\* Lines 366-368: the DEM is there, load it.
LoadDEM ==
    /\ pc = "check"
    /\ checkfiles(fs, args.demname)
    /\ DEM' = LoadGDAL(fs, args.demname)
    /\ trace' = Append(trace, "Load")
    /\ pc' = "branch"
    /\ UNCHANGED <<disk, runs, args, slopeMat, opennessMat, arrays, saving, err,
                   written, saved, other>>

\* Lines 369-371: it is not, raise.
NameErrorMessage(demname) == <<<<"ERROR: input raster">>, demname, <<"DEM does not exist">>>>

RaiseNoDEM ==
    /\ pc = "check"
    /\ ~checkfiles(fs, args.demname)
    /\ err' = [type |-> "NameError", msg |-> NameErrorMessage(args.demname)]
    /\ pc' = "raised"
    /\ UNCHANGED <<disk, runs, args, locals, saving, trace, written, saved, other>>

\* Line 383: the condition of the reload branch.
useCacheIgnoringKeep(files_, a) ==
    checkfiles(files_, SlopeFile(a.demname)) /\ checkfiles(files_, DiffFile(a.demname))

useCache(files_, a) ==
    /\ checkfiles(files_, SlopeFile(a.demname))
    /\ checkfiles(files_, DiffFile(a.demname))
    /\ a.ikeep

\* Lines 384-388: reload the two rasters.
ReloadRecomputingSlope ==
    /\ pc = "branch"
    /\ useCache(fs, args)
    /\ slopeMat' = slope_aspect(IF args.demfill THEN FillDepressions(DEM) ELSE DEM,
                                Abs(DEM.gt.res), factorz(DEM))
    /\ opennessMat' = LoadGDAL(fs, DiffFile(args.demname))
    /\ trace' = Append(trace, "Reload")
    /\ pc' = "composite"
    /\ UNCHANGED <<disk, runs, args, DEM, arrays, saving, err, written, saved, other>>

Reload ==
    /\ pc = "branch"
    /\ useCache(fs, args)
    /\ slopeMat' = LoadGDAL(fs, SlopeFile(args.demname))
    /\ opennessMat' = LoadGDAL(fs, DiffFile(args.demname))
    /\ trace' = Append(trace, "Reload")
    /\ pc' = "composite"
    /\ UNCHANGED <<disk, runs, args, DEM, arrays, saving, err, written, saved, other>>

\* Lines 389-396: from scratch, filling the depressions first when asked.
Fill ==
    /\ pc = "branch"
    /\ ~useCache(fs, args)
    /\ IF args.demfill
       THEN /\ DEM' = FillDepressions(DEM)
            /\ trace' = Append(trace, "Fill")
       ELSE UNCHANGED <<DEM, trace>>
    /\ pc' = "slope"
    /\ UNCHANGED <<disk, runs, args, slopeMat, opennessMat, arrays, saving, err,
                   written, saved, other>>

\* saveImage(fname, result, raster), as the code calls it.
SaveCall(fname, result, raster) == [fname |-> fname, result |-> result, raster |-> raster]

\* Lines 399-416: the slope raster, saved when isave.
Slope ==
    /\ pc = "slope"
    /\ LET m == slope_aspect(DEM, Abs(DEM.gt.res), factorz(DEM))
       IN  /\ slopeMat' = m
           /\ IF args.isave
              THEN /\ saves' = <<SaveCall(SlopeFile(args.demname), m.pix, m)>>
                   /\ ret' = "openness"
                   /\ pc' = "sv_imwrite"
              ELSE /\ pc' = "openness"
                   /\ UNCHANGED <<saves, ret>>
    /\ trace' = Append(trace, "Slope")
    /\ UNCHANGED <<disk, runs, args, DEM, opennessMat, arrays, out, err, written,
                   saved, other>>

\* Lines 305-308: the three saveImage calls of openness().
opennessSavesPosAsDiff(demname, a, raster) ==
    <<SaveCall(PosFile(demname), a.pos.pix, raster),
      SaveCall(NegFile(demname), a.neg.pix, raster),
      SaveCall(DiffFile(demname), a.pos.pix, raster)>>

opennessSaves(demname, a, raster) ==
    <<SaveCall(PosFile(demname), a.pos.pix, raster),
      SaveCall(NegFile(demname), a.neg.pix, raster),
      SaveCall(DiffFile(demname), a.diff.pix, raster)>>

\* Lines 272-308: openness() computes the three rasters and saves them when isave.
Openness ==
    /\ pc = "openness"
    /\ LET a == opennessArrays(DEM, args.svf)
       IN  /\ arrays' = a
           /\ IF args.isave
              THEN /\ saves' = opennessSaves(args.demname, a, slopeMat)
                   /\ ret' = "openness_return"
                   /\ pc' = "sv_imwrite"
              ELSE /\ pc' = "openness_return"
                   /\ UNCHANGED <<saves, ret>>
    /\ trace' = Append(trace, "Openness")
    /\ UNCHANGED <<disk, runs, args, DEM, slopeMat, opennessMat, out, err, written,
                   saved, other>>

\* Lines 310 and 419: what openness() returns becomes rrim()'s opennessMat.
OpennessReturn ==
    /\ pc = "openness_return"
    /\ opennessMat' = opennessReturn(arrays, args.isave)
    /\ saved' = IF args.isave
                THEN [dem |-> fs[args.demname], terrain |-> Terrain(args)]
                ELSE saved
    /\ pc' = "composite"
    /\ UNCHANGED <<disk, runs, args, DEM, slopeMat, arrays, saving, err, trace,
                   written, other>>

\* Lines 180-206: genRRIMImage builds the result and saves it with the slope
\* raster's georeferencing. Line 194 adds an integer to the openness raster,
\* which raises TypeError when that is None.
Composite ==
    /\ pc = "composite"
    /\ trace' = Append(trace, "Composite")
    /\ IF opennessMat = None
       THEN /\ err' = [type |-> "TypeError", msg |-> <<<<"NoneType + int">>>>]
            /\ pc' = "raised"
            /\ UNCHANGED <<saves, ret>>
       ELSE /\ saves' = <<SaveCall(RrimFile(args.demname),
                                   rrimResult(slopeMat, opennessMat, args.color, castMode),
                                   slopeMat)>>
            /\ ret' = "done"
            /\ pc' = "sv_imwrite"
            /\ err' = err
    /\ UNCHANGED <<disk, runs, args, locals, out, written, saved, other>>

\* Lines 429-431, or the exception leaving rrim(): the call is over and its
\* locals are gone.
Finish ==
    /\ pc \in {"done", "raised"}
    /\ pc' = "idle"
    /\ args' = None
    /\ DEM' = None /\ slopeMat' = None /\ opennessMat' = None /\ arrays' = None
    /\ ret' = "idle"
    /\ err' = None
    /\ trace' = << >>
    /\ written' = {}
    /\ UNCHANGED <<disk, runs, saves, out, saved, other>>

(* -------------------------------- saveImage -------------------------- *)
\* Line 129: cv2.imwrite(output_fname, result): pixels only, no georeferencing.
SvImwrite ==
    /\ pc = "sv_imwrite"
    /\ LET c == Head(saves)
       IN  /\ fs' = [fs EXCEPT ![c.fname] = File(c.result, GTDefault, ProjNone, TRUE)]
           /\ flog' = [flog EXCEPT ![c.fname] = <<"imwrite">>]
           /\ written' = written \cup {c.fname}
    /\ pc' = "sv_open"
    /\ UNCHANGED <<runs, args, locals, saving, err, trace, saved, other>>

\* Line 134: out = gdal.Open(output_fname, gdal.GA_Update)
SvOpen ==
    /\ pc = "sv_open"
    /\ LET f == Head(saves).fname
       IN  /\ out' = [fname |-> f, gt |-> fs[f].gt, proj |-> fs[f].proj]
           /\ flog' = [flog EXCEPT ![f] = Append(@, "open")]
    /\ pc' = "sv_setgt"
    /\ UNCHANGED <<fs, runs, args, locals, saves, ret, err, trace, written, saved, other>>

\* Line 135: out.SetGeoTransform(raster.geotransform)
stampedGeoTransformDefault(raster) == GTDefault

stampedGeoTransform(raster) == raster.gt

SvSetGeoTransform ==
    /\ pc = "sv_setgt"
    /\ out' = [out EXCEPT !.gt = stampedGeoTransform(Head(saves).raster)]
    /\ flog' = [flog EXCEPT ![out.fname] = Append(@, "SetGeoTransform")]
    /\ pc' = "sv_setproj"
    /\ UNCHANGED <<fs, runs, args, locals, saves, ret, err, trace, written, saved, other>>

\* Line 136: out.SetProjection(raster.projection)
SvSetProjection ==
    /\ pc = "sv_setproj"
    /\ out' = [out EXCEPT !.proj = Head(saves).raster.proj]
    /\ flog' = [flog EXCEPT ![out.fname] = Append(@, "SetProjection")]
    /\ pc' = "sv_close"
    /\ UNCHANGED <<fs, runs, args, locals, saves, ret, err, trace, written, saved, other>>

\* Line 137: out = None closes the dataset and flushes the georeferencing;
\* saveImage returns, to the next save or to rrim().
SvClose ==
    /\ pc = "sv_close"
    /\ fs' = [fs EXCEPT ![out.fname] = [@ EXCEPT !.gt = out.gt, !.proj = out.proj]]
    /\ flog' = [flog EXCEPT ![out.fname] = Append(@, "close")]
    /\ out' = None
    /\ saves' = Tail(saves)
    /\ pc' = IF Tail(saves) = << >> THEN ret ELSE "sv_imwrite"
    /\ ret' = ret
    /\ UNCHANGED <<runs, args, locals, err, trace, written, saved, other>>

Next ==
    \/ EnvSetDEM
    \/ EnvSetCache
    \/ Call
    \/ LoadDEM
    \/ RaiseNoDEM
    \/ Reload
    \/ Fill
    \/ Slope
    \/ Openness
    \/ OpennessReturn
    \/ Composite
    \/ SvImwrite
    \/ SvOpen
    \/ SvSetGeoTransform
    \/ SvSetProjection
    \/ SvClose
    \/ Finish

Spec == Init /\ [][Next]_vars

(* ----------------- SpecQuant: genRRIMImage's quantisations ----------- *)
Ranges ==
    (2..MaxRange) \cup {DefaultSaturation, DefaultBrithness, ExampleSaturation,
                        ExampleBrithness, WideRange}
Values == ((0 - MaxValue) * Unit)..(MaxValue * Unit)

InitQuant ==
    /\ castMode \in CastModes
    /\ InitPipeline
    /\ q = None
    /\ lut = None
    /\ zf = None

\* Lines 187-188 on one pixel of the slope raster.
QuantizeSlope ==
    /\ q = None
    /\ \E s \in Ranges, v \in Values :
         q' = [kind |-> "slope", range |-> s, value |-> v,
               index |-> SlopeIndex(v, s, castMode)]
    /\ UNCHANGED <<castMode, fs, flog, runs, pc, args, locals, saving, err, trace,
                   written, saved, lut, zf>>

\* Lines 194-196 on one pixel of the differential openness raster.
QuantizeOpenness ==
    /\ q = None
    /\ \E b \in Ranges, o \in Values :
         q' = [kind |-> "openness", range |-> b, value |-> o,
               index |-> OpennessIndex(o, b, castMode)]
    /\ UNCHANGED <<castMode, fs, flog, runs, pc, args, locals, saving, err, trace,
                   written, saved, lut, zf>>

NextQuant == QuantizeSlope \/ QuantizeOpenness

SpecQuant == InitQuant /\ [][NextQuant]_vars

(* ---------------------- SpecLUT: colorScheme(size) ------------------- *)
LutSizes ==
    {<<s, b, 3>> : s \in (Ranges \cup {ProbeRange}) \ {WideRange},
                   b \in (Ranges \cup {ProbeRange}) \ {WideRange}}

InitLUT ==
    /\ castMode \in CastModes
    /\ InitPipeline
    /\ q = None
    /\ lut = None
    /\ zf = None

\* Lines 99-109: img_hsv, zeroed, then the saturation rows and the value columns.
BuildHSV ==
    /\ lut = None
    /\ \E size \in LutSizes :
         /\ size[1] * size[2] <= MaxCells
         /\ lut' = [size |-> size, img_hsv |-> ImgHSV(size), RRIM_map |-> None]
    /\ UNCHANGED <<castMode, fs, flog, runs, pc, args, locals, saving, err, trace,
                   written, saved, q, zf>>

\* Line 111: cv2.cvtColor(img_hsv, cv2.COLOR_HSV2BGR)
ConvertColor ==
    /\ lut # None
    /\ lut.RRIM_map = None
    /\ lut' = [lut EXCEPT !.RRIM_map = colorScheme(lut.size)]
    /\ UNCHANGED <<castMode, fs, flog, runs, pc, args, locals, saving, err, trace,
                   written, saved, q, zf>>

NextLUT == BuildHSV \/ ConvertColor

SpecLUT == InitLUT /\ [][NextLUT]_vars

(* ------------------------ SpecZ: factorz(DEM) ------------------------ *)
\* The tokens a projection text is made of, and the texts of up to MaxTokens
\* of them, with the three texts the DEM files carry.
ProjTokens == {"GEOGCS", "PROJCS", "degree", "PROJECTION", "metre"}
ProjTexts ==
    UNION {[1..n -> ProjTokens] : n \in 0..MaxTokens}
        \cup {ProjGeographic, ProjProjected, ProjNone}
\* geotransform[3]: the latitudes CosFrac covers, north and south.
Latitudes == {0 - 60, 0, 60}

InitZ ==
    /\ castMode \in CastModes
    /\ InitPipeline
    /\ q = None
    /\ lut = None
    /\ zf = None

\* A raster as rd.LoadGDAL returns it, with its projection and geotransform.
LoadRaster ==
    /\ zf = None
    /\ \E text \in ProjTexts, lat \in Latitudes, gt \in {GTMetric, GTDegree} :
         zf' = [DEM |-> [pix |-> Basin, gt |-> [gt EXCEPT !.lat = lat], proj |-> text],
                zfactor |-> None]
    /\ UNCHANGED <<castMode, fs, flog, runs, pc, args, locals, saving, err, trace,
                   written, saved, q, lut>>

\* Lines 236-241.
Factorz ==
    /\ zf # None
    /\ zf.zfactor = None
    /\ zf' = [zf EXCEPT !.zfactor = factorz(zf.DEM)]
    /\ UNCHANGED <<castMode, fs, flog, runs, pc, args, locals, saving, err, trace,
                   written, saved, q, lut>>

NextZ == LoadRaster \/ Factorz

SpecZ == InitZ /\ [][NextZ]_vars

(* ======================= properties of rrim() ======================== *)
InTrace(phase) == \E k \in 1..Len(trace) : trace[k] = phase
IsPrefix(t, full) == Len(t) <= Len(full) /\ t = SubSeq(full, 1, Len(t))
InSaveImage == pc \in {"sv_imwrite", "sv_open", "sv_setgt", "sv_setproj", "sv_close"}
Present(f) == fs[f] # None /\ fs[f].r
SameShape(a, b) == Len(a.pix) = Len(b.pix)

\* C1: openness() returns the differential openness raster (positive -
\* negative)/2, of the DEM's shape, whatever isave is: once openness() has
\* returned in a from-scratch run, rrim() holds that raster, not None, and so
\* the run that reaches the end has written _rrim.tif.
C1_OpennessReturnsRaster ==
    (InTrace("Openness") /\ pc \in {"composite", "raised", "done"})
        => /\ opennessMat # None
           /\ opennessMat = arrays.diff
           /\ SameShape(opennessMat, DEM)
           /\ \A k \in 1..Len(DEM.pix) :
                2 * opennessMat.pix[k] = arrays.pos.pix[k] - arrays.neg.pix[k]
           /\ err = None

\* C2: at line 383 the reload branch is taken if and only if ikeep is set and
\* both <stem>_slope.tif and <stem>_diff_opns.tif exist and are readable; it
\* loads the two rasters and neither fills nor computes. Otherwise the run
\* goes on from scratch, filling the depressions exactly when demfill is set,
\* and reaches the compositor with slope and openness computed.
C2_ReloadIffKeepAndCached ==
    /\ [][pc = "branch" =>
            LET hit == /\ args.ikeep
                       /\ Present(SlopeFile(args.demname))
                       /\ Present(DiffFile(args.demname))
            IN  IF hit
                THEN /\ pc' = "composite"
                     /\ trace' = Append(trace, "Reload")
                     /\ slopeMat'.pix = fs[SlopeFile(args.demname)].pix
                     /\ opennessMat'.pix = fs[DiffFile(args.demname)].pix
                     /\ DEM' = DEM
                ELSE /\ pc' = "slope"
                     /\ trace' = IF args.demfill THEN Append(trace, "Fill") ELSE trace
                     /\ DEM' = IF args.demfill THEN FillDepressions(DEM) ELSE DEM
                     /\ slopeMat' = None /\ opennessMat' = None]_vars
    /\ [](pc = "composite" =>
            /\ InTrace("Reload") # InTrace("Slope")
            /\ InTrace("Slope") = InTrace("Openness")
            /\ InTrace("Reload") => ~InTrace("Fill")
            /\ InTrace("Slope") => (InTrace("Fill") = args.demfill))

C2_Witness ==
    /\ pc = "composite"
    /\ InTrace("Reload")
    /\ args.demfill
    /\ slopeMat.pix = ForeignSlope.pix

\* C3: a DEM path that does not exist or is not readable makes rrim() raise
\* NameError, its message holding the path, before anything is loaded,
\* filled or computed, and the run writes no file.
C3_MissingDemRaisesFirst ==
    /\ [][(pc = "check" /\ ~Present(args.demname)) =>
            /\ pc' = "raised"
            /\ err' # None
            /\ err'.type = "NameError"
            /\ fs' = fs]_vars
    /\ []((err # None /\ err.type = "NameError") =>
            /\ Contains(err.msg, args.demname)
            /\ trace = << >>
            /\ written = {}
            /\ DEM = None /\ slopeMat = None /\ opennessMat = None /\ arrays = None
            /\ pc = "raised")

C3_Witness ==
    /\ pc = "raised"
    /\ err.type = "NameError"
    /\ fs[args.demname] # None
    /\ fs[SlopeFile(args.demname)] # None
    /\ args.ikeep

\* The composite file a from-scratch run writes for the DEM file d and the
\* arguments a.
FreshRrim(d, a) ==
    LET dem    == [pix |-> d.pix, gt |-> d.gt, proj |-> d.proj]
        filled == IF a.demfill THEN FillDepressions(dem) ELSE dem
        slope  == slope_aspect(filled, Abs(dem.gt.res), factorz(dem))
        opns   == opennessArrays(filled, a.svf).diff
    IN  File(rrimResult(slope, opns, a.color, castMode), dem.gt, dem.proj, TRUE)

\* The slope and differential openness files on disk are those a from-scratch
\* run with isave wrote for the present DEM file and the present terrain
\* parameters, and nothing has changed them since.
CacheIsOwn ==
    /\ saved # None
    /\ saved.dem = fs[args.demname]
    /\ saved.terrain = Terrain(args)

PhaseOrders ==
    {<<"Load", "Reload", "Composite">>,
     <<"Load", "Slope", "Openness", "Composite">>,
     <<"Load", "Fill", "Slope", "Openness", "Composite">>}

C5_PhasesInOrder ==
    /\ \E full \in PhaseOrders : IsPrefix(trace, full)
    /\ InTrace("Slope") => (InTrace("Fill") = args.demfill)
    /\ InTrace("Openness") =>
          /\ slopeMat # None
          /\ args.isave => flog[SlopeFile(args.demname)][Len(flog[SlopeFile(args.demname)])] = "close"
    /\ InTrace("Composite") => (slopeMat # None /\ opennessMat # None)
    /\ pc = "done" => (InTrace("Composite") /\ RrimFile(args.demname) \in written)

\* C6: every file a run writes goes through imwrite, open for update,
\* SetGeoTransform, SetProjection, close, in that order; outside saveImage no
\* written file lacks a step, and each carries the geotransform and projection
\* of the slope raster, the composite _rrim.tif included.
SaveSteps == <<"imwrite", "open", "SetGeoTransform", "SetProjection", "close">>

C6_SaveImageStampsEveryFile ==
    /\ \A f \in Paths : flog[f] = <<"external">> \/ IsPrefix(flog[f], SaveSteps)
    /\ pc # "idle" => \A f \in written :
          /\ flog[f] # << >>
          /\ flog[f] # <<"external">>
          /\ (~InSaveImage) =>
                /\ flog[f] = SaveSteps
                /\ fs[f].gt = slopeMat.gt
                /\ fs[f].proj = slopeMat.proj
    /\ pc = "done" =>
          /\ RrimFile(args.demname) \in written
          /\ fs[RrimFile(args.demname)].gt = slopeMat.gt
          /\ fs[RrimFile(args.demname)].proj = slopeMat.proj

C6_Witness ==
    /\ pc = "done"
    /\ InTrace("Reload")
    /\ fs[RrimFile(args.demname)].gt = GTDegree
    /\ fs[args.demname].gt = GTMetric

(* ==================== properties of genRRIMImage ===================== *)
\* n/d rounded to the nearest integer, ties to even (d > 0, n >= 0).
RoundHalfEven(n, d) ==
    LET fl == n \div d
        twice == 2 * (n % d)
    IN  IF twice < d THEN fl
        ELSE IF twice > d THEN fl + 1
        ELSE IF fl % 2 = 0 THEN fl ELSE fl + 1

IsOpenness == q # None /\ q.kind = "openness"
IsSlope == q # None /\ q.kind = "slope"

\* C7: the openness index is 0 for every openness value at or below
\* -brightness_range and brightness_range - 1 for every value at or above
\* +brightness_range.
C7_OpennessClampsBothEnds ==
    IsOpenness =>
        /\ q.value <= (0 - q.range) * Unit => q.index = 0
        /\ q.value >= q.range * Unit => q.index = q.range - 1

\* C8: the slope index lies in 0..saturation_range - 1, and every slope whose
\* absolute value exceeds saturation_range - 1 gets exactly
\* saturation_range - 1.
C8_SlopeSaturates ==
    IsSlope =>
        /\ q.index \in 0..(q.range - 1)
        /\ Abs(q.value) > (q.range - 1) * Unit => q.index = q.range - 1

\* The openness values C9 is about: 0 <= (o + b)/2 <= b - 1.
InsideRange == IsOpenness /\ 0 <= q.value + q.range * Unit
                          /\ q.value + q.range * Unit <= 2 * Unit * (q.range - 1)

\* C9 as stated: inside the range the openness index is (o + b)/2 rounded to
\* the nearest integer.
C9_IndexIsRounded ==
    InsideRange => q.index = RoundHalfEven(q.value + q.range * Unit, 2 * Unit)

\* C9, amended: for an 8-bit axis (b <= 256), inside the range the openness
\* index is (o + b)/2 with its fraction dropped; openness 0 gets b/2 with its
\* fraction dropped.
C9_IndexIsTruncated ==
    (InsideRange /\ q.range <= U8Modulus) =>
        /\ q.index = (q.value + q.range * Unit) \div (2 * Unit)
        /\ q.value = 0 => q.index = q.range \div 2

C9_Witness ==
    /\ InsideRange
    /\ q.range = DefaultBrithness
    /\ (q.value + q.range * Unit) % (2 * Unit) > Unit
    /\ q.index + 1 = RoundHalfEven(q.value + q.range * Unit, 2 * Unit)

(* ====================== properties of colorScheme ==================== *)
Built == lut # None
Interior(i, n) == 0 < i /\ i < n - 1

\* C10 as stated: row i has saturation round(255 i/(s-1)), column j has value
\* round(255 j/(b-1)), hue is 0.
C10_AxesAreRounded ==
    Built => \A c \in DOMAIN lut.img_hsv :
        /\ lut.img_hsv[c][1] = 0
        /\ lut.img_hsv[c][2] = RoundHalfEven(LinStop * c[1], lut.size[1] - 1)
        /\ lut.img_hsv[c][3] = RoundHalfEven(LinStop * c[2], lut.size[2] - 1)

\* The 8-bit channel x at place i of an axis of n places: 0 at the first
\* place, 255 at the last; between them 255 i/(n-1) with its fraction dropped,
\* or, where that quotient is an integer k, k or k - 1.
AxisValueOK(i, n, x) ==
    IF i = 0 THEN x = 0
    ELSE IF i = n - 1 THEN x = LinStop
    ELSE IF (LinStop * i) % (n - 1) # 0 THEN x = (LinStop * i) \div (n - 1)
    ELSE x \in {(LinStop * i) \div (n - 1), (LinStop * i) \div (n - 1) - 1}

\* C10, amended: img_hsv has s rows and b columns, hue 0 everywhere, the
\* saturation of row i and the value of column j being the integer part of
\* the double np.linspace(0, 255, n)[i].
C10_AxesAreTruncated ==
    Built =>
        /\ DOMAIN lut.img_hsv = (0..(lut.size[1] - 1)) \X (0..(lut.size[2] - 1))
        /\ \A c \in DOMAIN lut.img_hsv :
              /\ lut.img_hsv[c][1] = 0
              /\ AxisValueOK(c[1], lut.size[1], lut.img_hsv[c][2])
              /\ AxisValueOK(c[2], lut.size[2], lut.img_hsv[c][3])

\* A table with an interior row whose exact saturation is an integer k and
\* whose stored saturation is k - 1, and a row whose fraction is dropped.
C10_Witness ==
    /\ Built
    /\ \E c \in DOMAIN lut.img_hsv :
          /\ Interior(c[1], lut.size[1])
          /\ (LinStop * c[1]) % (lut.size[1] - 1) = 0
          /\ lut.img_hsv[c][2] = (LinStop * c[1]) \div (lut.size[1] - 1) - 1
    /\ \E c \in DOMAIN lut.img_hsv :
          /\ 2 * ((LinStop * c[1]) % (lut.size[1] - 1)) > lut.size[1] - 1
          /\ lut.img_hsv[c][2] = (LinStop * c[1]) \div (lut.size[1] - 1)

\* The composite file made of the slope file sl and the differential openness
\* file df with the colour parameters color.
CachedRrim(sl, df, color) ==
    File(rrimResult([pix |-> sl.pix, gt |-> sl.gt, proj |-> sl.proj],
                    [pix |-> df.pix, gt |-> df.gt, proj |-> df.proj], color, castMode),
         sl.gt, sl.proj, TRUE)

\* C12: a run that takes the reload branch writes a composite that is a
\* function of the two cached rasters and of saturation and brithness alone,
\* so the same one whatever demfill, the svf parameters and the elevations of
\* the DEM are; it fills nothing, computes neither slope nor openness, and
\* writes no file but _rrim.tif.
C12_ReloadDependsOnCacheOnly ==
    /\ []((pc = "done" /\ InTrace("Reload")) =>
            fs[RrimFile(args.demname)] =
                CachedRrim(fs[SlopeFile(args.demname)], fs[DiffFile(args.demname)],
                           args.color))
    /\ []((pc # "idle" /\ InTrace("Reload")) =>
            /\ ~InTrace("Fill") /\ ~InTrace("Slope") /\ ~InTrace("Openness")
            /\ arrays = None
            /\ written \subseteq {RrimFile(args.demname)}
            /\ err = None)
    /\ [][InTrace("Reload") =>
            \A f \in Paths \ {RrimFile(args.demname)} : fs'[f] = fs[f]]_vars

C12_Witness ==
    /\ pc = "done"
    /\ InTrace("Reload")
    /\ args.demfill
    /\ args.svf.r_max = MaxRadius
    /\ fs[args.demname].pix = Basin
    /\ fs[SlopeFile(args.demname)] = ForeignSlope
    /\ fs[DiffFile(args.demname)] = ForeignDiff
    /\ written = {RrimFile(args.demname)}
    /\ fs[RrimFile(args.demname)].gt # fs[args.demname].gt

(* ======================== properties of factorz ====================== *)
Computed == zf # None /\ zf.zfactor # None
IsGeographicText(text) ==
    (\E k \in 1..Len(text) : text[k] = "degree")
        /\ ~(\E k \in 1..Len(text) : text[k] = "PROJECTION")

\* C11: factorz returns 1/(111320 * cos(|geotransform[3]|)) exactly when the
\* projection text contains "degree" and does not contain "PROJECTION", which
\* is 1/111320 at latitude 0; for every other text, projected or empty, it
\* returns exactly 1 whatever the geotransform is.
C11_ZFactorSelection ==
    Computed =>
        LET z == zf.zfactor
            c == CosFrac(Abs(zf.DEM.gt.lat))
        IN  IF IsGeographicText(zf.DEM.proj)
            THEN /\ z.num * MetresPerDegree * c.num = z.den * c.den
                 /\ z.num # z.den
                 /\ (zf.DEM.gt.lat = 0) => (z.den = MetresPerDegree * z.num)
            ELSE z.num = z.den

C11_Witness ==
    /\ Computed
    /\ IsGeographicText(zf.DEM.proj)
    /\ zf.DEM.gt.lat = 0 - 60
    /\ zf.zfactor = [num |-> 2, den |-> MetresPerDegree]

====
